---- MODULE Spec2Model ----
(***************************************************************************)
(* Model of the CRM data store (supabase/migrations/2025...sql): the four  *)
(* tables, their constraints, row level security policies and triggers,    *)
(* and of the Customers and Reminders screens that call it.                *)
(***************************************************************************)
EXTENDS Integers, FiniteSets, Sequences, TLC

\* ------------------------------------------------------------------ bounds
MaxId == 3          \* rows a run inserts into customers and their children
MaxTime == 2        \* the clock now() runs over 0..MaxTime

\* ------------------------------------------------------------ value domains
\* SQL NULL, one value outside each column type: uuid and enumerated text
\* columns hold strings, id references hold numbers, free text holds tuples
\* of characters
NULL == "NULL"
NullId == 0
NullText == <<"NULL">>
NullOf(column) ==
  CASE column \in {"id", "customer_id"} -> NullId
    [] column \in {"name", "title", "full_name"} -> NullText
    [] column \in {"user_id", "plan", "type"} -> NULL
    [] column = "updated_at" -> -1
    [] column = "completed" -> NULL
Identities == {"A", "B"}                 \* identities that may register
\* gen_random_uuid() never repeats: requests draw 1, 2, ... from nextId and
\* the profile made at registration takes a value of its own
ProfileId(u) == IF u = "A" THEN -1 ELSE -2
Tables == {"profiles", "customers", "customer_interactions", "reminders"}
Ana == <<"a", "n", "a">>                 \* strings are tuples of characters
Bob == <<"b", "o", "b">>
EmptyString == <<>>

VARIABLES
  auth_users,   \* auth.users: the registered identities
  db,           \* [table name |-> set of rows] for the four public tables
  now,          \* the value of now()
  nextId,       \* next value of gen_random_uuid()
  result,       \* the response of the last request the store answered
  customersPage,  \* [session |-> state of its Customers screen]
  remindersPage,  \* [session |-> state of its Reminders screen]
  history       \* what the toggles of the Reminders screen did to the store

storeVars == <<auth_users, db, now, nextId, result>>
pageVars == <<customersPage, remindersPage, history>>
vars == <<auth_users, db, now, nextId, result, customersPage, remindersPage, history>>

\* --------------------------------------------------------- schema (l. 1-48)
\* column defaults of CREATE TABLE; a column the payload omits takes these
DefaultsMutant(tbl) ==
  CASE tbl = "profiles" ->
         [id |-> nextId, user_id |-> NULL, full_name |-> NullText,
          plan |-> "free", updated_at |-> now]
    [] tbl = "customers" ->
         [id |-> nextId, user_id |-> NULL, name |-> NullText, updated_at |-> now]
    [] tbl = "customer_interactions" ->
         [id |-> nextId, customer_id |-> NullId, user_id |-> NULL, type |-> NULL]
    [] tbl = "reminders" ->
         [id |-> nextId, customer_id |-> NullId, user_id |-> NULL, title |-> NullText,
          completed |-> TRUE, updated_at |-> now]
Defaults(tbl) ==
  CASE tbl = "profiles" ->
         [id |-> nextId, user_id |-> NULL, full_name |-> NullText,
          plan |-> "free", updated_at |-> now]
    [] tbl = "customers" ->
         [id |-> nextId, user_id |-> NULL, name |-> NullText, updated_at |-> now]
    [] tbl = "customer_interactions" ->
         [id |-> nextId, customer_id |-> NullId, user_id |-> NULL, type |-> NULL]
    [] tbl = "reminders" ->
         [id |-> nextId, customer_id |-> NullId, user_id |-> NULL, title |-> NullText,
          completed |-> FALSE, updated_at |-> now]

NotNullColumns(tbl) ==
  CASE tbl = "profiles" -> {"id", "user_id"}
    [] tbl = "customers" -> {"id", "user_id", "name"}
    [] tbl = "customer_interactions" -> {"id", "customer_id", "user_id", "type"}
    [] tbl = "reminders" -> {"id", "customer_id", "user_id", "title"}

InteractionTypes == {"call", "email", "meeting", "quote", "service", "other"}
Plans == {"free", "pro"}

\* CHECK constraints; a CHECK passes on NULL
CheckConstraintMutant(tbl, row) == TRUE
CheckConstraint(tbl, row) ==
  CASE tbl = "profiles" -> row.plan = NULL \/ row.plan \in Plans
    [] tbl = "customer_interactions" -> row.type = NULL \/ row.type \in InteractionTypes
    [] OTHER -> TRUE

\* UNIQUE(user_id) on profiles, against the rows that stay in the table
UniqueViolationMutant(tbl, row, others) == FALSE
UniqueViolation(tbl, row, others) ==
  tbl = "profiles" /\ \E o \in others : o.user_id = row.user_id

\* REFERENCES auth.users(id) and REFERENCES public.customers(id); referential
\* checks look at the whole referenced table, not at the caller's rows
ForeignKeyViolationMutant(tbl, row, customerRows) ==
  row.user_id \notin auth_users
ForeignKeyViolation(tbl, row, customerRows) ==
  \/ row.user_id \notin auth_users
  \/ /\ tbl \in {"customer_interactions", "reminders"}
     /\ ~\E c \in customerRows : c.id = row.customer_id

\* ----------------------------------------------------- policies (l. 50-103)
\* auth.uid() = user_id; the comparison is not true when either side is NULL
OwnerPredicate(caller, row) ==
  caller # NULL /\ row.user_id # NULL /\ caller = row.user_id

\* the tables have row level security enabled: a command with no policy
\* (DELETE on profiles) sees no row
HasPolicyMutant(tbl, cmd) == TRUE
HasPolicy(tbl, cmd) == ~(tbl = "profiles" /\ cmd = "DELETE")

UsingMutant(tbl, cmd, caller, row) == HasPolicy(tbl, cmd)
Using(tbl, cmd, caller, row) ==
  HasPolicy(tbl, cmd) /\ OwnerPredicate(caller, row)

\* INSERT policies state WITH CHECK; an UPDATE policy without WITH CHECK
\* applies its USING expression to the new row
WithCheckMutant(tbl, cmd, caller, row) == caller # NULL
WithCheck(tbl, cmd, caller, row) ==
  HasPolicy(tbl, cmd) /\ OwnerPredicate(caller, row)

\* ----------------------------------------------------- triggers (l. 105-128)
HasUpdatedAtTrigger(tbl) == tbl \in {"profiles", "customers", "reminders"}

update_updated_at_column(new) == [new EXCEPT !.updated_at = now]

BeforeUpdate(tbl, new) ==
  IF HasUpdatedAtTrigger(tbl) THEN update_updated_at_column(new) ELSE new

\* ------------------------------------------------------------ the statements
\* the payload's columns over the given row
Patch(row, payload) ==
  [c \in DOMAIN row |-> IF c \in DOMAIN payload THEN payload[c] ELSE row[c]]

\* the first constraint a new row violates, in the order the store checks:
\* row security, NOT NULL and CHECK, unique index, then foreign keys
RowError(tbl, cmd, caller, row, others, customerRows) ==
  IF ~WithCheck(tbl, cmd, caller, row) THEN "rls"
  ELSE IF \E c \in NotNullColumns(tbl) : row[c] = NullOf(c) THEN "not_null"
  ELSE IF ~CheckConstraint(tbl, row) THEN "check"
  ELSE IF UniqueViolation(tbl, row, others) THEN "unique"
  ELSE IF ForeignKeyViolation(tbl, row, customerRows) THEN "fk"
  ELSE "none"

\* SELECT * FROM tbl, as caller
Select(tbl, caller) == {r \in db[tbl] : Using(tbl, "SELECT", caller, r)}

\* INSERT INTO tbl VALUES (payload), as caller
DbInsert(tbl, caller, payload) ==
  LET row == Patch(Defaults(tbl), payload)
      err == RowError(tbl, "INSERT", caller, row, db[tbl], db.customers)
  IN  [error |-> err,
       db |-> IF err = "none" THEN [db EXCEPT ![tbl] = @ \cup {row}] ELSE db]

\* UPDATE tbl SET payload WHERE id = id, as caller
DbUpdate(tbl, caller, id, payload) ==
  LET targets == {r \in db[tbl] : /\ r.id = id
                                  /\ Using(tbl, "SELECT", caller, r)
                                  /\ Using(tbl, "UPDATE", caller, r)}
      rest == db[tbl] \ targets
      New(r) == BeforeUpdate(tbl, Patch(r, payload))
      errs == {RowError(tbl, "UPDATE", caller, New(r), rest, db.customers) : r \in targets}
                 \ {"none"}
  IN  IF errs # {}
      THEN [error |-> CHOOSE e \in errs : TRUE, db |-> db, count |-> 0]
      ELSE [error |-> "none",
            db |-> [db EXCEPT ![tbl] = rest \cup {New(r) : r \in targets}],
            count |-> Cardinality(targets)]

\* ON DELETE CASCADE of customer_interactions.customer_id and
\* reminders.customer_id: the children of the deleted customers go with them,
\* whoever owns them (referential actions are not subject to row security)
CascadeMutant(d, deletedIds) ==
  [d EXCEPT !.customer_interactions = {r \in @ : r.customer_id \notin deletedIds}]
Cascade(d, deletedIds) ==
  [d EXCEPT !.customer_interactions = {r \in @ : r.customer_id \notin deletedIds},
            !.reminders = {r \in @ : r.customer_id \notin deletedIds}]

\* DELETE FROM tbl WHERE id = id, as caller
DbDelete(tbl, caller, id) ==
  LET targets == {r \in db[tbl] : /\ r.id = id
                                  /\ Using(tbl, "SELECT", caller, r)
                                  /\ Using(tbl, "DELETE", caller, r)}
      removed == [db EXCEPT ![tbl] = @ \ targets]
      after == IF tbl = "customers"
               THEN Cascade(removed, {r.id : r \in targets})
               ELSE removed
  IN  [error |-> "none",
       db |-> after,
       count |-> Cardinality(targets),
       cascaded |-> {r.id : r \in (removed.customer_interactions \cup removed.reminders)
                                    \ (after.customer_interactions \cup after.reminders)}]

\* handle_new_user (l. 131-141): SECURITY DEFINER, so row security does not
\* apply to its insert; the constraints do
handle_new_userMutant(new, profileRows) == profileRows
handle_new_user(new, profileRows) ==
  profileRows \cup
    {[id |-> ProfileId(new.id), user_id |-> new.id,
      full_name |-> IF new.full_name = NullText THEN EmptyString ELSE new.full_name,
      plan |-> "free", updated_at |-> now]}

\* ------------------------------------------------ requests to the store
\* op and error of the last statement; for a select the caller and the rows
\* returned; for a delete the ids its referential actions removed
NoResult == [op |-> "none", caller |-> NULL, error |-> "none", rows |-> {},
             cascaded |-> {}]

Response(op, caller, err, rows, cascaded) ==
  [op |-> op, caller |-> caller, error |-> err, rows |-> rows,
   cascaded |-> cascaded]

\* who may call: a signed-in identity, or nobody (auth.uid() is NULL)
Callers == auth_users \cup {NULL}

SuppliedTimes == {0, MaxTime}

\* the ids a request may name: those in the table and one that is not
TargetIds(tbl) == {r.id : r \in db[tbl]} \cup {nextId}

\* the rows a caller may send; any column may be supplied or left out
InsertPayloads(tbl) ==
  CASE tbl = "profiles" ->
         {[user_id |-> u] : u \in Identities}
    [] tbl = "customers" ->
         {[user_id |-> u, name |-> Ana] : u \in Identities}
    [] tbl = "customer_interactions" ->
         {[user_id |-> u, customer_id |-> c, type |-> "call"] :
            u \in Identities, c \in TargetIds("customers")}
    [] tbl = "reminders" ->
         {[user_id |-> u, customer_id |-> c, title |-> Ana] :
            u \in Identities, c \in TargetIds("customers")}

UpdatePayloads(tbl) ==
  CASE tbl = "profiles" ->
         {[plan |-> "pro"]} \cup {[user_id |-> u] : u \in Identities}
    [] tbl = "customers" ->
         {[name |-> Bob]} \cup {[user_id |-> u] : u \in Identities}
    [] tbl = "customer_interactions" ->
         {[user_id |-> u] : u \in Identities}
    [] tbl = "reminders" ->
         {[user_id |-> u] : u \in Identities}

\* supabase.auth.signUp: INSERT INTO auth.users, then the AFTER INSERT trigger
\* on_auth_user_created in the same transaction
Register(u, fullName) ==
  /\ u \notin auth_users
  /\ LET new == [id |-> u, full_name |-> fullName]
         profiles2 == handle_new_user(new, db.profiles)
     IN  /\ ~UniqueViolation("profiles", [user_id |-> u], db.profiles)
         /\ auth_users' = auth_users \cup {u}
         /\ db' = [db EXCEPT !.profiles = profiles2]
  /\ result' = NoResult
  /\ UNCHANGED <<now, nextId>>
  /\ UNCHANGED pageVars

Tick ==
  /\ now < MaxTime
  /\ now' = now + 1
  /\ UNCHANGED <<auth_users, db, nextId, result>>
  /\ UNCHANGED pageVars

SelectRows(caller, tbl) ==
  /\ result' = Response("select", caller, "none", Select(tbl, caller), {})
  /\ UNCHANGED <<auth_users, db, now, nextId>>
  /\ UNCHANGED pageVars

Insert(caller, tbl, payload) ==
  /\ nextId <= MaxId
  /\ LET r == DbInsert(tbl, caller, payload)
     IN  /\ db' = r.db
         /\ nextId' = IF r.error = "none" THEN nextId + 1 ELSE nextId
         /\ result' = Response("insert", NULL, r.error, {}, {})
  /\ UNCHANGED <<auth_users, now>>
  /\ UNCHANGED pageVars

Update(caller, tbl, id, payload) ==
  /\ LET r == DbUpdate(tbl, caller, id, payload)
     IN  /\ db' = r.db
         /\ result' = Response("update", NULL, r.error, {}, {})
  /\ UNCHANGED <<auth_users, now, nextId>>
  /\ UNCHANGED pageVars

Delete(caller, tbl, id) ==
  /\ LET r == DbDelete(tbl, caller, id)
     IN  /\ db' = r.db
         /\ result' = Response("delete", NULL, r.error, {}, r.cascaded)
  /\ UNCHANGED <<auth_users, now, nextId>>
  /\ UNCHANGED pageVars

\* ------------------------------------------------- screens, before sign-in
Sessions == {"s1", "s2"}

NoCustomer == [id |-> NullId]           \* editingCustomer = null
EmptyForm == [name |-> EmptyString, email |-> EmptyString]  \* { name: '', email: '', ... }
NoRequest == [kind |-> "none", id |-> NullId, name |-> NullText, email |-> NullText,
              user_id |-> NULL]

\* useState initial values of Customers(); nothing is requested without a user
CustomersMounted(user) ==
  [user |-> user, customers |-> {}, loading |-> TRUE, showForm |-> FALSE,
   editingCustomer |-> NoCustomer, formData |-> EmptyForm, saving |-> FALSE,
   toast |-> "none", submitReq |-> NoRequest, deleteReq |-> NoRequest,
   loads |-> IF user = NULL THEN {} ELSE {[state |-> "sent", data |-> {}]}]

NoReminder == [id |-> NullId]           \* editingReminder = null
NoSelection == NullId                   \* customer_id: '', nothing selected
\* { title: '', description: '', customer_id: '', reminder_date: '' }
EmptyReminderForm ==
  [title |-> EmptyString, customer_id |-> NoSelection, reminder_date |-> EmptyString]
NoReminderRequest ==
  [kind |-> "none", id |-> NullId, title |-> NullText, customer_id |-> NullId,
   user_id |-> NULL]

\* useState initial values of Reminders()
RemindersMounted(user) ==
  [user |-> user, reminders |-> {}, customers |-> {}, loading |-> TRUE,
   showForm |-> FALSE, editingReminder |-> NoReminder,
   formData |-> EmptyReminderForm, saving |-> FALSE, toast |-> "none",
   submitReq |-> NoReminderRequest, deleteReq |-> NoReminderRequest,
   toggleReqs |-> <<>>,
   loads |-> IF user = NULL THEN {}
             ELSE {[state |-> "sent", reminders |-> {}, customers |-> {}]}]

NoHistory == [original |-> FALSE, clicks |-> 0, applied |-> 0]

Init ==
  /\ auth_users = {}
  /\ db = [profiles |-> {}, customers |-> {}, customer_interactions |-> {},
           reminders |-> {}]
  /\ now = 0
  /\ nextId = 1
  /\ result = NoResult
  /\ customersPage = [s \in Sessions |-> CustomersMounted(NULL)]
  /\ remindersPage = [s \in Sessions |-> RemindersMounted(NULL)]
  /\ history = NoHistory

Next ==
  \/ \E u \in Identities : Register(u, Ana)
  \/ \E c \in auth_users, t \in Tables : SelectRows(c, t)
  \/ \E c \in auth_users, t \in Tables : \E p \in InsertPayloads(t) : Insert(c, t, p)
  \/ \E c \in auth_users, t \in Tables \ {"profiles"} : \E i \in TargetIds(t) :
       \E p \in UpdatePayloads(t) : Update(c, t, i, p)
  \/ \E c \in auth_users, t \in Tables : \E i \in TargetIds(t) : Delete(c, t, i)

Spec == Init /\ [][Next]_vars

\* ---------------------------------------------------- the profiles table
\* registration with or without a name, and every statement a caller can
\* send to profiles
SuppliedNames == {NullText, Ana}   \* options.data.full_name: absent or given

NextProfiles ==
  \/ \E u \in Identities, n \in SuppliedNames : Register(u, n)
  \/ \E c \in Callers : SelectRows(c, "profiles")
  \/ \E c \in Callers : \E p \in InsertPayloads("profiles") : Insert(c, "profiles", p)
  \/ \E c \in Callers : \E i \in TargetIds("profiles") :
       \E p \in UpdatePayloads("profiles") : Update(c, "profiles", i, p)
  \/ \E c \in Callers : \E i \in TargetIds("profiles") : Delete(c, "profiles", i)

SpecProfiles == Init /\ [][NextProfiles]_vars

\* ------------------------------------------------- the clock and updated_at
\* one identity, the clock running, payloads that supply updated_at or not
TimedInsertPayloads(tbl) ==
  CASE tbl = "customers" ->
         {[user_id |-> "A", name |-> Ana]}
         \cup {[user_id |-> "A", name |-> Ana, updated_at |-> t] : t \in SuppliedTimes}
    [] tbl = "reminders" ->
         {[user_id |-> "A", customer_id |-> c, title |-> Ana] :
            c \in TargetIds("customers")}
    [] tbl = "customer_interactions" ->
         {[user_id |-> "A", customer_id |-> c, type |-> "call"] :
            c \in TargetIds("customers")}

TimedUpdatePayloads(tbl) ==
  CASE tbl = "profiles" -> {[plan |-> "pro"]}
    [] tbl = "customers" -> {[name |-> Bob]} \cup {[updated_at |-> t] : t \in SuppliedTimes}
    [] tbl = "reminders" -> {[completed |-> TRUE]}
    [] tbl = "customer_interactions" -> {[type |-> "email"]}

NextTime ==
  \/ Register("A", Ana)
  \/ Tick
  \/ \E t \in Tables \ {"profiles"} : \E p \in TimedInsertPayloads(t) : Insert("A", t, p)
  \/ \E t \in Tables : \E i \in TargetIds(t) :
       \E p \in TimedUpdatePayloads(t) : Update("A", t, i, p)

SpecTime == Init /\ [][NextTime]_vars

\* ------------------------------------------- ownership and the child tables
\* every caller, signed in or not, sends rows that name either identity as
\* owner, any customer id and a type inside or outside the CHECK list;
\* updates supply user_id, customer_id or type
OwnerPayloads == {[user_id |-> u] : u \in Identities}

ChildTables == {"customer_interactions", "reminders"}

SuppliedTypes == {"call", "fax"}

OwnershipInsertPayloads(tbl) ==
  CASE tbl = "profiles" -> OwnerPayloads
    [] tbl = "customers" ->
         {[user_id |-> u, name |-> Ana] : u \in Identities}
    [] tbl = "customer_interactions" ->
         {[user_id |-> u, customer_id |-> c, type |-> t] :
            u \in Identities, c \in TargetIds("customers"), t \in SuppliedTypes}
    [] tbl = "reminders" ->
         {[user_id |-> u, customer_id |-> c, title |-> Ana] :
            u \in Identities, c \in TargetIds("customers")}

OwnershipUpdatePayloads(tbl) ==
  CASE tbl = "profiles" -> OwnerPayloads
    [] tbl = "customers" -> OwnerPayloads
    [] tbl = "customer_interactions" ->
         OwnerPayloads
         \cup {[customer_id |-> c] : c \in TargetIds("customers")}
         \cup {[type |-> t] : t \in SuppliedTypes}
    [] tbl = "reminders" ->
         OwnerPayloads \cup {[customer_id |-> c] : c \in TargetIds("customers")}

NextOwnership ==
  \/ \E u \in Identities : Register(u, Ana)
  \/ \E c \in Callers, t \in Tables : SelectRows(c, t)
  \/ \E c \in Callers, t \in Tables :
       \E p \in OwnershipInsertPayloads(t) : Insert(c, t, p)
  \/ \E c \in Callers, t \in Tables : \E i \in TargetIds(t) :
       \E p \in OwnershipUpdatePayloads(t) : Update(c, t, i, p)
  \/ \E c \in Callers, t \in Tables : \E i \in TargetIds(t) : Delete(c, t, i)

SpecOwnership == Init /\ [][NextOwnership]_vars

\* ------------------------------------------------------ customer names
\* the owner's requests to customers with a name that is absent, empty,
\* blank or filled in
StoredNames == {NullText, EmptyString, <<" ">>, Ana}

NamedInsertPayloads == {[user_id |-> "A", name |-> n] : n \in StoredNames}

NamedUpdatePayloads == {[name |-> n] : n \in StoredNames}

NextNames ==
  \/ Register("A", Ana)
  \/ SelectRows("A", "customers")
  \/ \E p \in NamedInsertPayloads : Insert("A", "customers", p)
  \/ \E i \in TargetIds("customers") : \E p \in NamedUpdatePayloads :
       Update("A", "customers", i, p)

SpecNames == Init /\ [][NextNames]_vars

\* ==================================================== the Customers screen
FreeLimit == 20     \* customers.length >= 20
MaxNew == 2         \* customers the screens add to those of the initial state
MaxLoads == 2       \* loadCustomers calls one screen has in flight
MaxPick == 1        \* rows of the list, from its top, the user acts on

\* z.string().trim()
RECURSIVE TrimStart(_)
TrimStart(str) ==
  IF str # <<>> /\ Head(str) = " " THEN TrimStart(Tail(str)) ELSE str
RECURSIVE TrimEnd(_)
TrimEnd(str) ==
  IF str # <<>> /\ str[Len(str)] = " "
  THEN TrimEnd(SubSeq(str, 1, Len(str) - 1)) ELSE str
Trim(str) == TrimEnd(TrimStart(str))

\* z.string().email(), over the characters the drafts use: one "@" with a
\* local part before it, no blank, and after it a domain of labels joined by
\* dots whose last label has two characters or more
IsEmail(str) ==
  \E i \in 2..Len(str) :
    /\ str[i] = "@"
    /\ \A j \in 1..Len(str) : (str[j] = "@" => j = i) /\ str[j] # " "
    /\ str[1] # "." /\ str[i - 1] # "."
    /\ \E k \in (i + 2)..(Len(str) - 2) : str[k] = "."
    /\ \A k \in (i + 1)..Len(str) :
         str[k] = "." => k > i + 1 /\ k < Len(str) - 1 /\ str[k - 1] # "."

\* customerSchema.parse(formData): name trimmed, at least 2 characters; email
\* trimmed and an address, or the field left as ''
customerSchemaMutant(formData) ==
  [ok |-> TRUE, name |-> Trim(formData.name), email |-> Trim(formData.email)]
customerSchema(formData) ==
  LET name == Trim(formData.name)
      email == Trim(formData.email)
  IN  [ok |-> Len(name) >= 2 /\ (IsEmail(email) \/ formData.email = EmptyString),
       name |-> name,
       email |-> IF IsEmail(email) THEN email ELSE formData.email]

\* what the user may type into the name field
DraftNames == {<<"a">>, Ana}

\* the initial state holds the owner's first customers, ids 1..n
CustomerRows(user, n) ==
  {[id |-> i, user_id |-> user, name |-> Ana, updated_at |-> 0] : i \in 1..n}

\* a row the user picks to edit or delete: one of the MaxPick newest rows,
\* which .order('created_at', { ascending: false }) puts on top of the list
Pickable(page) == {c \in page.customers : c.id > nextId - 1 - MaxPick}

InsertsInFlight ==
  Cardinality({s \in Sessions : customersPage[s].submitReq.kind = "insert"})

\* .from('customers').select('*').eq('user_id', user.id)
loadCustomersQuery(user) ==
  {r \in Select("customers", user) : r.user_id = user}

\* loadCustomers(), first half: the request goes out
StartLoad(page) ==
  [page EXCEPT !.loads = @ \cup {[state |-> "sent", data |-> {}]}]

\* the store answers a loadCustomers request
LoadAnswered(s) ==
  LET page == customersPage[s]
  IN  /\ \E l \in page.loads :
           /\ l.state = "sent"
           /\ customersPage' = [customersPage EXCEPT ![s].loads =
                (@ \ {l}) \cup {[state |-> "answered",
                                 data |-> loadCustomersQuery(page.user)]}]
      /\ UNCHANGED <<storeVars, remindersPage, history>>

\* loadCustomers(), second half: setCustomers(data || []); setLoading(false)
loadCustomers(s) ==
  LET page == customersPage[s]
  IN  /\ \E l \in page.loads :
           /\ l.state = "answered"
           /\ customersPage' = [customersPage EXCEPT
                ![s].loads = @ \ {l},
                ![s].customers = l.data,
                ![s].loading = FALSE]
      /\ UNCHANGED <<storeVars, remindersPage, history>>

\* loadCustomers(), catch branch: the request failed, the list stays as it was
loadCustomersFailed(s) ==
  LET page == customersPage[s]
  IN  /\ \E l \in page.loads :
           /\ l.state = "sent"
           /\ customersPage' = [customersPage EXCEPT
                ![s].loads = @ \ {l},
                ![s].toast = "load_error",
                ![s].loading = FALSE]
      /\ UNCHANGED <<storeVars, remindersPage, history>>

\* the screen shows its buttons once loading is false; an open dialog covers them
ListShown(page) == ~page.loading /\ ~page.showForm

\* "Novo Cliente": disabled at 20 loaded customers; resets the draft and the
\* dialog trigger opens the dialog
NovoCliente(s) ==
  LET page == customersPage[s]
  IN  /\ ListShown(page)
      /\ ~(Cardinality(page.customers) >= FreeLimit)
      /\ customersPage' = [customersPage EXCEPT
           ![s].editingCustomer = NoCustomer,
           ![s].formData = EmptyForm,
           ![s].showForm = TRUE]
      /\ UNCHANGED <<storeVars, remindersPage, history>>

\* "Adicionar Primeiro Cliente", shown while the list is empty: setShowForm(true)
AdicionarPrimeiroCliente(s) ==
  LET page == customersPage[s]
  IN  /\ ListShown(page)
      /\ page.customers = {}
      /\ customersPage' = [customersPage EXCEPT ![s].showForm = TRUE]
      /\ UNCHANGED <<storeVars, remindersPage, history>>

\* "Cancelar": setShowForm(false)
Cancelar(s) ==
  LET page == customersPage[s]
  IN  /\ page.showForm
      /\ customersPage' = [customersPage EXCEPT ![s].showForm = FALSE]
      /\ UNCHANGED <<storeVars, remindersPage, history>>

\* typing into the name field
setFormData(s, name) ==
  LET page == customersPage[s]
  IN  /\ page.showForm
      /\ page.formData.name # name
      /\ customersPage' = [customersPage EXCEPT ![s].formData.name = name]
      /\ UNCHANGED <<storeVars, remindersPage, history>>

\* typing into the email field
setFormEmail(s, email) ==
  LET page == customersPage[s]
  IN  /\ page.showForm
      /\ page.formData.email # email
      /\ customersPage' = [customersPage EXCEPT ![s].formData.email = email]
      /\ UNCHANGED <<storeVars, remindersPage, history>>

\* handleEdit(customer); the rows of the model keep, of the customer's
\* columns, id, user_id, name and updated_at: customer.email || '' is ''
handleEdit(s, customer) ==
  LET page == customersPage[s]
  IN  /\ ListShown(page)
      /\ customer \in Pickable(page)
      /\ customersPage' = [customersPage EXCEPT
           ![s].editingCustomer = customer,
           ![s].formData = [name |-> customer.name, email |-> EmptyString],
           ![s].showForm = TRUE]
      /\ UNCHANGED <<storeVars, remindersPage, history>>

\* the limit check of handleSubmit: customers.length >= 20
LimitReachedMutant(page) ==
  /\ Cardinality(page.customers) >= FreeLimit
  /\ \E p \in db.profiles : p.user_id = page.user /\ p.plan = "free"
LimitReached(page) == Cardinality(page.customers) >= FreeLimit

\* handleSubmit up to its await: validation, the limit check, the request
handleSubmit(s) ==
  LET page == customersPage[s]
      validatedData == customerSchema(page.formData)
      customerData == [name |-> validatedData.name,
                       email |-> IF validatedData.email = EmptyString
                                 THEN NullText ELSE validatedData.email,
                       user_id |-> page.user]
  IN  /\ page.showForm
      /\ ~page.saving
      /\ customersPage' =
           IF ~validatedData.ok
           THEN [customersPage EXCEPT ![s].toast = "invalid"]
           ELSE IF page.editingCustomer.id # NullId
           THEN [customersPage EXCEPT
                   ![s].saving = TRUE,
                   ![s].submitReq = [kind |-> "update",
                                     id |-> page.editingCustomer.id,
                                     name |-> customerData.name,
                                     email |-> customerData.email,
                                     user_id |-> customerData.user_id]]
           ELSE IF LimitReached(page)
           THEN [customersPage EXCEPT ![s].toast = "limit"]
           ELSE [customersPage EXCEPT
                   ![s].saving = TRUE,
                   ![s].submitReq = [kind |-> "insert", id |-> NullId,
                                     name |-> customerData.name,
                                     email |-> customerData.email,
                                     user_id |-> customerData.user_id]]
      /\ UNCHANGED <<storeVars, remindersPage, history>>

\* the store runs the request of handleSubmit
SubmitAnswer(page) ==
  LET req == page.submitReq
      payload == [name |-> req.name, email |-> req.email, user_id |-> req.user_id]
  IN  IF req.kind = "insert"
      THEN DbInsert("customers", page.user, payload)
      ELSE DbUpdate("customers", page.user, req.id, payload)

\* handleSubmit after its await, no error: toast, close, reset, loadCustomers()
handleSubmitDone(s) ==
  LET page == customersPage[s]
      r == SubmitAnswer(page)
  IN  /\ page.submitReq.kind # "none"
      /\ Cardinality(page.loads) < MaxLoads \/ r.error # "none"
      /\ db' = r.db
      /\ nextId' = IF page.submitReq.kind = "insert" /\ r.error = "none"
                   THEN nextId + 1 ELSE nextId
      /\ customersPage' =
           IF r.error # "none"
           THEN [customersPage EXCEPT
                   ![s].submitReq = NoRequest,
                   ![s].toast = "error",
                   ![s].saving = FALSE]
           ELSE [customersPage EXCEPT
                   ![s] = StartLoad(
                     [page EXCEPT
                        !.submitReq = NoRequest,
                        !.toast = IF page.submitReq.kind = "insert"
                                  THEN "added" ELSE "updated",
                        !.showForm = FALSE,
                        !.editingCustomer = NoCustomer,
                        !.formData = EmptyForm,
                        !.saving = FALSE])]
      /\ UNCHANGED <<auth_users, now, result, remindersPage, history>>

\* handleSubmit after its await, the request failed before reaching the store
handleSubmitFailedMutant(s) ==
  LET page == customersPage[s]
  IN  /\ page.submitReq.kind # "none"
      /\ customersPage' = [customersPage EXCEPT
           ![s].submitReq = NoRequest,
           ![s].toast = "error"]
      /\ UNCHANGED <<storeVars, remindersPage, history>>
handleSubmitFailed(s) ==
  LET page == customersPage[s]
  IN  /\ page.submitReq.kind # "none"
      /\ customersPage' = [customersPage EXCEPT
           ![s].submitReq = NoRequest,
           ![s].toast = "error",
           ![s].saving = FALSE]
      /\ UNCHANGED <<storeVars, remindersPage, history>>

\* handleDelete(customer) up to its await; declining confirm() returns
handleDeleteMutant(s, customer, confirmed) ==
  LET page == customersPage[s]
  IN  /\ ListShown(page)
      /\ customer \in Pickable(page)
      /\ page.deleteReq.kind = "none"
      /\ customersPage' =
           [customersPage EXCEPT
              ![s].deleteReq = [kind |-> "delete", id |-> customer.id,
                                name |-> NullText, email |-> NullText,
                                user_id |-> NULL]]
      /\ UNCHANGED <<storeVars, remindersPage, history>>
handleDelete(s, customer, confirmed) ==
  LET page == customersPage[s]
  IN  /\ ListShown(page)
      /\ customer \in Pickable(page)
      /\ page.deleteReq.kind = "none"
      /\ customersPage' =
           IF ~confirmed THEN customersPage
           ELSE [customersPage EXCEPT
                   ![s].deleteReq = [kind |-> "delete", id |-> customer.id,
                                     name |-> NullText, email |-> NullText,
                                     user_id |-> NULL]]
      /\ UNCHANGED <<storeVars, remindersPage, history>>

\* handleDelete after its await: toast and loadCustomers()
handleDeleteDone(s) ==
  LET page == customersPage[s]
      r == DbDelete("customers", page.user, page.deleteReq.id)
  IN  /\ page.deleteReq.kind = "delete"
      /\ Cardinality(page.loads) < MaxLoads
      /\ db' = r.db
      /\ customersPage' = [customersPage EXCEPT
           ![s] = StartLoad([page EXCEPT !.deleteReq = NoRequest,
                                         !.toast = "removed"])]
      /\ UNCHANGED <<auth_users, now, nextId, result, remindersPage, history>>

\* two sessions of owner A open the Customers screen; the store holds the
\* owner's profile and either no customer or one less than the limit
InitCounts == {0, FreeLimit - 1}

InitCustomers ==
  \E n \in InitCounts :
    /\ now = 0
    /\ nextId = n + 1
    /\ auth_users = {"A"}
    /\ db = [profiles |-> handle_new_user([id |-> "A", full_name |-> Ana], {}),
             customers |-> CustomerRows("A", n),
             customer_interactions |-> {}, reminders |-> {}]
    /\ result = NoResult
    /\ customersPage = [s \in Sessions |-> CustomersMounted("A")]
    /\ remindersPage = [s \in Sessions |-> RemindersMounted(NULL)]
    /\ history = NoHistory

\* ids left for the inserts of a run
IdsLeft == \E n \in InitCounts : n < nextId /\ nextId + InsertsInFlight <= n + MaxNew

\* both sessions load the list and create customers
NextCustomers ==
  \E s \in Sessions :
    \/ LoadAnswered(s)
    \/ loadCustomers(s)
    \/ loadCustomersFailed(s)
    \/ NovoCliente(s)
    \/ AdicionarPrimeiroCliente(s)
    \/ Cancelar(s)
    \/ \E n \in DraftNames : setFormData(s, n)
    \/ IdsLeft /\ handleSubmit(s)
    \/ handleSubmitDone(s)
    \/ handleSubmitFailed(s)

SpecCustomers == InitCustomers /\ [][NextCustomers]_vars

\* one session uses every control of the screen
NextCustomerForm ==
  \E s \in {"s1"} :
    \/ LoadAnswered(s)
    \/ loadCustomers(s)
    \/ loadCustomersFailed(s)
    \/ NovoCliente(s)
    \/ AdicionarPrimeiroCliente(s)
    \/ Cancelar(s)
    \/ \E n \in DraftNames : setFormData(s, n)
    \/ \E c \in customersPage[s].customers : handleEdit(s, c)
    \/ (IdsLeft \/ customersPage[s].editingCustomer.id # NullId) /\ handleSubmit(s)
    \/ handleSubmitDone(s)
    \/ handleSubmitFailed(s)
    \/ \E c \in customersPage[s].customers, ok \in BOOLEAN : handleDelete(s, c, ok)
    \/ handleDeleteDone(s)

SpecCustomerForm == InitCustomers /\ [][NextCustomerForm]_vars

\* ==================================================== the Reminders screen
MaxToggles == 2     \* clicks on the completion circle in one run
MaxFormRows == 1    \* rows the two forms create in one run

\* .from('reminders').select('*, customers (name)').eq('user_id', user.id):
\* each reminder with the name of its customer, when the caller may see it
remindersQuery(user) ==
  {[c \in DOMAIN r \cup {"customers"} |->
      IF c = "customers"
      THEN IF \E k \in Select("customers", user) : k.id = r.customer_id
           THEN [name |-> (CHOOSE k \in Select("customers", user) :
                             k.id = r.customer_id).name]
           ELSE [name |-> NullText]
      ELSE r[c]] :
     r \in {x \in Select("reminders", user) : x.user_id = user}}

\* .from('customers').select('id, name').eq('user_id', user.id)
customersQuery(user) ==
  {[id |-> k.id, name |-> k.name] :
     k \in {x \in Select("customers", user) : x.user_id = user}}

\* loadData(), the request for reminders goes out
StartLoadData(page) ==
  [page EXCEPT !.loads = @ \cup {[state |-> "sent", reminders |-> {},
                                  customers |-> {}]}]

\* loadData(): the store answers the reminders query, the customers query
\* goes out
RemindersAnswered(s) ==
  LET page == remindersPage[s]
  IN  /\ \E l \in page.loads :
           /\ l.state = "sent"
           /\ remindersPage' = [remindersPage EXCEPT ![s].loads =
                (@ \ {l}) \cup {[state |-> "half",
                                 reminders |-> remindersQuery(page.user),
                                 customers |-> {}]}]
      /\ UNCHANGED <<storeVars, customersPage, history>>

\* loadData(): the store answers the customers query
CustomersAnswered(s) ==
  LET page == remindersPage[s]
  IN  /\ \E l \in page.loads :
           /\ l.state = "half"
           /\ remindersPage' = [remindersPage EXCEPT ![s].loads =
                (@ \ {l}) \cup {[state |-> "answered",
                                 reminders |-> l.reminders,
                                 customers |-> customersQuery(page.user)]}]
      /\ UNCHANGED <<storeVars, customersPage, history>>

\* loadData(), end: setReminders, setCustomers, setLoading(false)
loadData(s) ==
  LET page == remindersPage[s]
  IN  /\ \E l \in page.loads :
           /\ l.state = "answered"
           /\ remindersPage' = [remindersPage EXCEPT
                ![s].loads = @ \ {l},
                ![s].reminders = l.reminders,
                ![s].customers = l.customers,
                ![s].loading = FALSE]
      /\ UNCHANGED <<storeVars, customersPage, history>>

\* loadData(), catch branch: either query failed, nothing is set
loadDataFailed(s) ==
  LET page == remindersPage[s]
  IN  /\ \E l \in page.loads :
           /\ l.state \in {"sent", "half"}
           /\ remindersPage' = [remindersPage EXCEPT
                ![s].loads = @ \ {l},
                ![s].loading = FALSE]
      /\ UNCHANGED <<storeVars, customersPage, history>>

\* the value handleToggleComplete writes: the negation of the flag of the
\* reminder as the list shows it
ToggledValue(reminder) == ~reminder.completed

\* handleToggleComplete(reminder) up to its await:
\* .update({ completed: !reminder.completed }).eq('id', reminder.id)
handleToggleComplete(s, reminder) ==
  LET page == remindersPage[s]
  IN  /\ ~page.loading
      /\ reminder \in page.reminders
      /\ history.clicks < MaxToggles
      /\ remindersPage' = [remindersPage EXCEPT ![s].toggleReqs =
           Append(@, [id |-> reminder.id, completed |-> ToggledValue(reminder)])]
      /\ history' = [history EXCEPT !.clicks = @ + 1]
      /\ UNCHANGED <<storeVars, customersPage>>

RemoveAt(seq, i) == SubSeq(seq, 1, i - 1) \o SubSeq(seq, i + 1, Len(seq))

\* handleToggleComplete after its await, no error: loadData()
handleToggleCompleteDone(s, i) ==
  LET page == remindersPage[s]
      req == page.toggleReqs[i]
      r == DbUpdate("reminders", page.user, req.id, [completed |-> req.completed])
  IN  /\ Cardinality(page.loads) < MaxLoads
      /\ r.error = "none"
      /\ db' = r.db
      /\ remindersPage' = [remindersPage EXCEPT
           ![s] = StartLoadData([page EXCEPT !.toggleReqs = RemoveAt(@, i)])]
      /\ history' = [history EXCEPT !.applied = @ + r.count]
      /\ UNCHANGED <<auth_users, now, nextId, result, customersPage>>

\* handleToggleComplete after its await, the request failed: nothing reloads
handleToggleCompleteFailed(s, i) ==
  LET page == remindersPage[s]
  IN  /\ remindersPage' = [remindersPage EXCEPT ![s].toggleReqs = RemoveAt(@, i)]
      /\ UNCHANGED <<storeVars, customersPage, history>>

\* ------------------------------------------------------ the reminder form
SomeDate == <<"2", "0", "2", "5">>      \* a value of the datetime-local input

\* z.string().uuid(): the ids of the store stand for uuids, '' is none
IsUuid(v) == v # NoSelection

\* reminderSchema.parse(formData): title trimmed, at least 3 characters;
\* customer_id a uuid; reminder_date at least 1 character
reminderSchemaMutant(formData) ==
  [ok |-> TRUE, title |-> Trim(formData.title),
   customer_id |-> formData.customer_id, reminder_date |-> formData.reminder_date]
reminderSchema(formData) ==
  LET title == Trim(formData.title)
  IN  [ok |-> /\ Len(title) >= 3
              /\ IsUuid(formData.customer_id)
              /\ Len(formData.reminder_date) >= 1,
       title |-> title,
       customer_id |-> formData.customer_id,
       reminder_date |-> formData.reminder_date]

\* the header and the list are rendered once loading is false; an open
\* dialog covers them
RemindersShown(page) == ~page.loading /\ ~page.showForm

\* "Novo Lembrete": resets the editing target and the draft, and the dialog
\* trigger opens the dialog
NovoLembrete(s) ==
  LET page == remindersPage[s]
  IN  /\ RemindersShown(page)
      /\ remindersPage' = [remindersPage EXCEPT
           ![s].editingReminder = NoReminder,
           ![s].formData = EmptyReminderForm,
           ![s].showForm = TRUE]
      /\ UNCHANGED <<storeVars, customersPage, history>>

\* "Criar Primeiro Lembrete", shown while the list is empty and there is a
\* customer: setShowForm(true)
CriarPrimeiroLembrete(s) ==
  LET page == remindersPage[s]
  IN  /\ RemindersShown(page)
      /\ page.reminders = {}
      /\ Cardinality(page.customers) > 0
      /\ remindersPage' = [remindersPage EXCEPT ![s].showForm = TRUE]
      /\ UNCHANGED <<storeVars, customersPage, history>>

\* "Cancelar" of the reminder dialog: setShowForm(false)
CancelarLembrete(s) ==
  LET page == remindersPage[s]
  IN  /\ page.showForm
      /\ remindersPage' = [remindersPage EXCEPT ![s].showForm = FALSE]
      /\ UNCHANGED <<storeVars, customersPage, history>>

\* typing into the title field
setReminderTitle(s, title) ==
  LET page == remindersPage[s]
  IN  /\ page.showForm
      /\ page.formData.title # title
      /\ remindersPage' = [remindersPage EXCEPT ![s].formData.title = title]
      /\ UNCHANGED <<storeVars, customersPage, history>>

\* choosing one of the loaded customers in the select
setReminderCustomer(s, customer) ==
  LET page == remindersPage[s]
  IN  /\ page.showForm
      /\ customer \in page.customers
      /\ page.formData.customer_id # customer.id
      /\ remindersPage' = [remindersPage EXCEPT
           ![s].formData.customer_id = customer.id]
      /\ UNCHANGED <<storeVars, customersPage, history>>

\* setting or clearing the date field
setReminderDate(s, date) ==
  LET page == remindersPage[s]
  IN  /\ page.showForm
      /\ page.formData.reminder_date # date
      /\ remindersPage' = [remindersPage EXCEPT ![s].formData.reminder_date = date]
      /\ UNCHANGED <<storeVars, customersPage, history>>

\* handleEdit(reminder) of Reminders()
Reminders_handleEdit(s, reminder) ==
  LET page == remindersPage[s]
  IN  /\ RemindersShown(page)
      /\ reminder \in page.reminders
      /\ remindersPage' = [remindersPage EXCEPT
           ![s].editingReminder = reminder,
           ![s].formData = [title |-> reminder.title,
                            customer_id |-> reminder.customer_id,
                            reminder_date |-> SomeDate],
           ![s].showForm = TRUE]
      /\ UNCHANGED <<storeVars, customersPage, history>>

\* handleSubmit of Reminders() up to its await: validation, then the request
Reminders_handleSubmit(s) ==
  LET page == remindersPage[s]
      validatedData == reminderSchema(page.formData)
      reminderData == [title |-> validatedData.title,
                       customer_id |-> validatedData.customer_id,
                       user_id |-> page.user]
  IN  /\ page.showForm
      /\ ~page.saving
      /\ remindersPage' =
           IF ~validatedData.ok
           THEN [remindersPage EXCEPT ![s].toast = "invalid"]
           ELSE [remindersPage EXCEPT
                   ![s].saving = TRUE,
                   ![s].submitReq =
                      [kind |-> IF page.editingReminder.id # NullId
                                THEN "update" ELSE "insert",
                       id |-> page.editingReminder.id,
                       title |-> reminderData.title,
                       customer_id |-> reminderData.customer_id,
                       user_id |-> reminderData.user_id]]
      /\ UNCHANGED <<storeVars, customersPage, history>>

\* the store runs the request of the reminder form
ReminderSubmitAnswerMutant(page) ==
  LET req == page.submitReq
      payload == [title |-> req.title, customer_id |-> req.customer_id,
                  user_id |-> req.user_id, completed |-> FALSE]
  IN  IF req.kind = "insert"
      THEN DbInsert("reminders", page.user, payload)
      ELSE DbUpdate("reminders", page.user, req.id, payload)
ReminderSubmitAnswer(page) ==
  LET req == page.submitReq
      payload == [title |-> req.title, customer_id |-> req.customer_id,
                  user_id |-> req.user_id]
  IN  IF req.kind = "insert"
      THEN DbInsert("reminders", page.user, payload)
      ELSE DbUpdate("reminders", page.user, req.id, payload)

\* handleSubmit of Reminders() after its await: on success toast, close,
\* reset, loadData(); on an error of the store the error toast
Reminders_handleSubmitDone(s) ==
  LET page == remindersPage[s]
      r == ReminderSubmitAnswer(page)
  IN  /\ page.submitReq.kind # "none"
      /\ Cardinality(page.loads) < MaxLoads \/ r.error # "none"
      /\ db' = r.db
      /\ nextId' = IF page.submitReq.kind = "insert" /\ r.error = "none"
                   THEN nextId + 1 ELSE nextId
      /\ remindersPage' =
           IF r.error # "none"
           THEN [remindersPage EXCEPT
                   ![s].submitReq = NoReminderRequest,
                   ![s].toast = "error",
                   ![s].saving = FALSE]
           ELSE [remindersPage EXCEPT
                   ![s] = StartLoadData(
                     [page EXCEPT
                        !.submitReq = NoReminderRequest,
                        !.toast = IF page.submitReq.kind = "insert"
                                  THEN "created" ELSE "updated",
                        !.showForm = FALSE,
                        !.editingReminder = NoReminder,
                        !.formData = EmptyReminderForm,
                        !.saving = FALSE])]
      /\ UNCHANGED <<auth_users, now, result, customersPage, history>>

\* handleSubmit of Reminders() after its await, the request failed before
\* reaching the store
Reminders_handleSubmitFailedMutant(s) ==
  LET page == remindersPage[s]
  IN  /\ page.submitReq.kind # "none"
      /\ remindersPage' = [remindersPage EXCEPT
           ![s].submitReq = NoReminderRequest,
           ![s].toast = "error",
           ![s].showForm = FALSE,
           ![s].editingReminder = NoReminder,
           ![s].formData = EmptyReminderForm,
           ![s].saving = FALSE]
      /\ UNCHANGED <<storeVars, customersPage, history>>
Reminders_handleSubmitFailed(s) ==
  LET page == remindersPage[s]
  IN  /\ page.submitReq.kind # "none"
      /\ remindersPage' = [remindersPage EXCEPT
           ![s].submitReq = NoReminderRequest,
           ![s].toast = "error",
           ![s].saving = FALSE]
      /\ UNCHANGED <<storeVars, customersPage, history>>

\* owner A, with one customer and one reminder, pending or completed, opens
\* the Reminders screen in both sessions
InitReminders ==
  \E b \in BOOLEAN :
    /\ now = 0
    /\ nextId = 3
    /\ auth_users = {"A"}
    /\ db = [profiles |-> handle_new_user([id |-> "A", full_name |-> Ana], {}),
             customers |-> CustomerRows("A", 1),
             customer_interactions |-> {},
             reminders |-> {[id |-> 2, customer_id |-> 1, user_id |-> "A",
                             title |-> Ana, completed |-> b, updated_at |-> 0]}]
    /\ result = NoResult
    /\ customersPage = [s \in Sessions |-> CustomersMounted(NULL)]
    /\ remindersPage = [s \in Sessions |-> RemindersMounted("A")]
    /\ history = [original |-> b, clicks |-> 0, applied |-> 0]

NextReminders ==
  \E s \in Sessions :
    \/ RemindersAnswered(s)
    \/ CustomersAnswered(s)
    \/ loadData(s)
    \/ loadDataFailed(s)
    \/ \E r \in remindersPage[s].reminders : handleToggleComplete(s, r)
    \/ \E i \in DOMAIN remindersPage[s].toggleReqs : handleToggleCompleteDone(s, i)
    \/ \E i \in DOMAIN remindersPage[s].toggleReqs : handleToggleCompleteFailed(s, i)

SpecReminders == InitReminders /\ [][NextReminders]_vars

\* ====================================================== the two forms
\* what the user may type into the fields of the two forms
FormNames == {<<" ", "a", " ">>, Ana}
FormEmails == {<<"a", "b">>, <<"a", "@", "b", ".", "c", "o">>, <<" ">>}
FormTitles == {<<" ", "a", "b">>, Ana}
FormDates == {EmptyString, SomeDate}

\* the routes of the two screens
Routes == {"/customers", "/reminders"}

\* owner A, with one customer and one pending reminder or none, opens the
\* Customers screen or the Reminders screen in session s1
InitForms ==
  \E href \in Routes, held \in 0..1 :
  /\ now = 0
  /\ nextId = 3
  /\ auth_users = {"A"}
  /\ db = [profiles |-> handle_new_user([id |-> "A", full_name |-> Ana], {}),
           customers |-> CustomerRows("A", 1),
           customer_interactions |-> {},
           reminders |-> {[id |-> 1 + i, customer_id |-> 1, user_id |-> "A",
                           title |-> Ana, completed |-> FALSE, updated_at |-> 0] :
                          i \in 1..held}]
  /\ result = NoResult
  /\ customersPage = [s \in Sessions |->
       CustomersMounted(IF s = "s1" /\ href = "/customers" THEN "A" ELSE NULL)]
  /\ remindersPage = [s \in Sessions |->
       RemindersMounted(IF s = "s1" /\ href = "/reminders" THEN "A" ELSE NULL)]
  /\ history = NoHistory

\* ids left for the rows the forms create
FormIdsLeft == nextId <= 2 + MaxFormRows

\* one session fills in and submits the customer form and the reminder form
NextForms ==
  \E s \in {"s1"} :
    \/ LoadAnswered(s)
    \/ loadCustomers(s)
    \/ NovoCliente(s)
    \/ Cancelar(s)
    \/ \E n \in FormNames : setFormData(s, n)
    \/ \E e \in FormEmails : setFormEmail(s, e)
    \/ \E c \in customersPage[s].customers : handleEdit(s, c)
    \/ (FormIdsLeft \/ customersPage[s].editingCustomer.id # NullId) /\ handleSubmit(s)
    \/ handleSubmitDone(s)
    \/ handleSubmitFailed(s)
    \/ RemindersAnswered(s)
    \/ CustomersAnswered(s)
    \/ loadData(s)
    \/ NovoLembrete(s)
    \/ CriarPrimeiroLembrete(s)
    \/ CancelarLembrete(s)
    \/ \E t \in FormTitles : setReminderTitle(s, t)
    \/ \E c \in remindersPage[s].customers : setReminderCustomer(s, c)
    \/ \E d \in FormDates : setReminderDate(s, d)
    \/ \E r \in remindersPage[s].reminders : Reminders_handleEdit(s, r)
    \/ (FormIdsLeft \/ remindersPage[s].editingReminder.id # NullId)
         /\ Reminders_handleSubmit(s)
    \/ Reminders_handleSubmitDone(s)
    \/ Reminders_handleSubmitFailed(s)

SpecForms == InitForms /\ [][NextForms]_vars

\* ================================================ every control of a screen
\* handleDelete(reminder) of Reminders() up to its await; declining confirm()
\* returns
Reminders_handleDelete(s, reminder, confirmed) ==
  LET page == remindersPage[s]
  IN  /\ RemindersShown(page)
      /\ reminder \in page.reminders
      /\ page.deleteReq.kind = "none"
      /\ remindersPage' =
           IF ~confirmed THEN remindersPage
           ELSE [remindersPage EXCEPT
                   ![s].deleteReq = [kind |-> "delete", id |-> reminder.id,
                                     title |-> NullText, customer_id |-> NullId,
                                     user_id |-> NULL]]
      /\ UNCHANGED <<storeVars, customersPage, history>>

\* handleDelete of Reminders() after its await: toast and loadData()
Reminders_handleDeleteDone(s) ==
  LET page == remindersPage[s]
      r == DbDelete("reminders", page.user, page.deleteReq.id)
  IN  /\ page.deleteReq.kind = "delete"
      /\ Cardinality(page.loads) < MaxLoads
      /\ db' = r.db
      /\ remindersPage' = [remindersPage EXCEPT
           ![s] = StartLoadData([page EXCEPT !.deleteReq = NoReminderRequest,
                                             !.toast = "removed"])]
      /\ UNCHANGED <<auth_users, now, nextId, result, customersPage, history>>

\* handleDelete of Reminders() after its await, the request failed: the error
\* toast, nothing reloads
Reminders_handleDeleteFailed(s) ==
  LET page == remindersPage[s]
  IN  /\ page.deleteReq.kind = "delete"
      /\ remindersPage' = [remindersPage EXCEPT
           ![s].deleteReq = NoReminderRequest,
           ![s].toast = "error"]
      /\ UNCHANGED <<storeVars, customersPage, history>>

\* handleDelete of Customers() after its await, the request failed: the error
\* toast, nothing reloads
handleDeleteFailed(s) ==
  LET page == customersPage[s]
  IN  /\ page.deleteReq.kind = "delete"
      /\ customersPage' = [customersPage EXCEPT
           ![s].deleteReq = NoRequest,
           ![s].toast = "error"]
      /\ UNCHANGED <<storeVars, remindersPage, history>>

\* owner A, on the given plan, opens in session s1 either the Customers
\* screen, the store holding one customer less than the limit, or the
\* Reminders screen, the store holding one customer and `held` pending reminders
InitScreen(href, plan, held) ==
  /\ now = 0
  /\ nextId = IF href = "/customers" THEN FreeLimit ELSE 3
  /\ auth_users = {"A"}
  /\ db = [profiles |->
             {[p EXCEPT !.plan = plan] :
                p \in handle_new_user([id |-> "A", full_name |-> Ana], {})},
           customers |->
             CustomerRows("A", IF href = "/customers" THEN FreeLimit - 1 ELSE 1),
           customer_interactions |-> {},
           reminders |-> {[id |-> 1 + i, customer_id |-> 1, user_id |-> "A",
                           title |-> Ana, completed |-> FALSE, updated_at |-> 0] :
                          i \in 1..held}]
  /\ result = NoResult
  /\ customersPage = [s \in Sessions |->
       CustomersMounted(IF s = "s1" /\ href = "/customers" THEN "A" ELSE NULL)]
  /\ remindersPage = [s \in Sessions |->
       RemindersMounted(IF s = "s1" /\ href = "/reminders" THEN "A" ELSE NULL)]
  /\ history = NoHistory

\* ids left for the rows the screen creates
ScreenIdsLeft ==
  nextId <= (IF customersPage["s1"].user # NULL THEN FreeLimit - 1 ELSE 2)
            + MaxFormRows

\* the submit button of the customer form: while ids are left for an insert,
\* in edit mode, or with the list at the limit
SubmitCustomer(s) ==
  /\ \/ ScreenIdsLeft
     \/ customersPage[s].editingCustomer.id # NullId
     \/ Cardinality(customersPage[s].customers) >= FreeLimit
  /\ handleSubmit(s)

\* the submit button of the reminder form, while ids are left for an insert
SubmitReminder(s) ==
  /\ ScreenIdsLeft \/ remindersPage[s].editingReminder.id # NullId
  /\ Reminders_handleSubmit(s)

\* ------------------------------------------------ submitting the two forms
InitSubmit == \E href \in Routes : InitScreen(href, "free", 1)

\* the awaited request of a submit settles: the client returns its result or
\* throws
SubmitSettles ==
  \E s \in Sessions :
    \/ handleSubmitDone(s) \/ handleSubmitFailed(s)
    \/ Reminders_handleSubmitDone(s) \/ Reminders_handleSubmitFailed(s)

\* the user opens a dialog, fills it in and submits it
NextSave ==
  \E s \in {"s1"} :
    \/ LoadAnswered(s)
    \/ loadCustomers(s)
    \/ NovoCliente(s)
    \/ \E n \in DraftNames : setFormData(s, n)
    \/ \E c \in customersPage[s].customers : handleEdit(s, c)
    \/ SubmitCustomer(s)
    \/ handleSubmitDone(s)
    \/ handleSubmitFailed(s)
    \/ RemindersAnswered(s)
    \/ CustomersAnswered(s)
    \/ loadData(s)
    \/ NovoLembrete(s)
    \/ \E t \in FormTitles : setReminderTitle(s, t)
    \/ \E c \in remindersPage[s].customers : setReminderCustomer(s, c)
    \/ setReminderDate(s, SomeDate)
    \/ \E r \in remindersPage[s].reminders : Reminders_handleEdit(s, r)
    \/ SubmitReminder(s)
    \/ Reminders_handleSubmitDone(s)
    \/ Reminders_handleSubmitFailed(s)

SpecSave == InitSubmit /\ [][NextSave]_vars /\ WF_vars(SubmitSettles)

\* the same, and the user may cancel a dialog at any moment
NextSubmit ==
  \/ NextSave
  \/ \E s \in {"s1"} : Cancelar(s) \/ CancelarLembrete(s)

SpecSubmit == InitSubmit /\ [][NextSubmit]_vars

\* ------------------------------------------------ the 20-customer pre-check
\* the owner, on either plan, creates, edits and asks to delete customers
\* around the limit; what the pre-check lets through is sent, and the delete
\* requests are left to fail
InitLimit == \E plan \in Plans : InitScreen("/customers", plan, 0)

NextLimit ==
  \E s \in {"s1"} :
    \/ LoadAnswered(s)
    \/ loadCustomers(s)
    \/ NovoCliente(s)
    \/ setFormData(s, Ana)
    \/ \E c \in customersPage[s].customers : handleEdit(s, c)
    \/ SubmitCustomer(s)
    \/ handleSubmitDone(s)
    \/ \E c \in customersPage[s].customers, ok \in BOOLEAN : handleDelete(s, c, ok)
    \/ handleDeleteFailed(s)

SpecLimit == InitLimit /\ [][NextLimit]_vars

\* ------------------------------------------------------ the delete buttons
InitDelete == \E href \in Routes : InitScreen(href, "free", 1)

NextDelete ==
  \E s \in {"s1"} :
    \/ LoadAnswered(s)
    \/ loadCustomers(s)
    \/ loadCustomersFailed(s)
    \/ \E c \in customersPage[s].customers : handleEdit(s, c)
    \/ Cancelar(s)
    \/ \E c \in customersPage[s].customers, ok \in BOOLEAN : handleDelete(s, c, ok)
    \/ handleDeleteDone(s)
    \/ handleDeleteFailed(s)
    \/ RemindersAnswered(s)
    \/ CustomersAnswered(s)
    \/ loadData(s)
    \/ loadDataFailed(s)
    \/ \E r \in remindersPage[s].reminders : Reminders_handleEdit(s, r)
    \/ CancelarLembrete(s)
    \/ \E r \in remindersPage[s].reminders, ok \in BOOLEAN :
         Reminders_handleDelete(s, r, ok)
    \/ Reminders_handleDeleteDone(s)
    \/ Reminders_handleDeleteFailed(s)

SpecDelete == InitDelete /\ [][NextDelete]_vars

\* ------------------------------------------- the completed flag of a reminder
\* the owner creates reminders through the form and toggles them
InitCompleted == InitScreen("/reminders", "free", 0)

NextCompleted ==
  \E s \in {"s1"} :
    \/ RemindersAnswered(s)
    \/ CustomersAnswered(s)
    \/ loadData(s)
    \/ NovoLembrete(s)
    \/ CriarPrimeiroLembrete(s)
    \/ setReminderTitle(s, Bob)
    \/ \E c \in remindersPage[s].customers : setReminderCustomer(s, c)
    \/ setReminderDate(s, SomeDate)
    \/ SubmitReminder(s)
    \/ Reminders_handleSubmitDone(s)
    \/ \E r \in remindersPage[s].reminders : handleToggleComplete(s, r)
    \/ \E i \in DOMAIN remindersPage[s].toggleReqs : handleToggleCompleteDone(s, i)

SpecCompleted == InitCompleted /\ [][NextCompleted]_vars

\* the owner edits a reminder through the form and toggles it
InitEdit == InitScreen("/reminders", "free", 1)

NextEdit ==
  \E s \in {"s1"} :
    \/ RemindersAnswered(s)
    \/ CustomersAnswered(s)
    \/ loadData(s)
    \/ \E r \in remindersPage[s].reminders : Reminders_handleEdit(s, r)
    \/ setReminderTitle(s, Bob)
    \/ SubmitReminder(s)
    \/ Reminders_handleSubmitDone(s)
    \/ \E r \in remindersPage[s].reminders : handleToggleComplete(s, r)
    \/ \E i \in DOMAIN remindersPage[s].toggleReqs : handleToggleCompleteDone(s, i)

SpecEdit == InitEdit /\ [][NextEdit]_vars

\* ========================================================= the properties
OwnedTables == {"customers", "customer_interactions", "reminders"}

\* C1. Read isolation: a select on customers, customer_interactions or
\* reminders returns to its caller only rows whose user_id is the caller;
\* no row owned by another identity is ever returned.
C1_ReadIsolation ==
  result.op = "select" => \A r \in result.rows : r.user_id = result.caller

\* a select answered with rows while the same table holds another owner's rows
C1_Witness ==
  /\ result.op = "select"
  /\ result.rows # {}
  /\ \E t \in OwnedTables :
       /\ result.rows \subseteq db[t]
       /\ \E r \in db[t] : r.user_id # result.caller

\* the rows of the owned tables that do not belong to caller
RowsOfOthers(d, caller) ==
  [t \in OwnedTables |-> {r \in d[t] : r.user_id # caller}]

\* C2. Write isolation: no update or delete issued by B, including the delete
\* of one of B's own customers with its cascade, changes or removes a row of
\* customers, customer_interactions or reminders that another identity owns.
C2_WriteIsolation ==
  [][\A b \in auth_users :
       (RowsOfOthers(db', b) # RowsOfOthers(db, b)) =>
          \A t \in OwnedTables : \A i \in TargetIds(t) :
             /\ ~Delete(b, t, i)
             /\ \A p \in UpdatePayloads(t) : ~Update(b, t, i, p)]_vars

\* C3. An insert into any of the four tables whose user_id differs from the
\* caller's identity is rejected with the row-security (authorization) error
\* and leaves every table unchanged.
C3_InsertOwnerChecked ==
  [][(result'.op = "insert" /\ ~(result'.error = "rls" /\ db' = db)) =>
       \A c \in auth_users, t \in Tables :
         \A p \in InsertPayloads(t) : p.user_id # c => ~Insert(c, t, p)]_vars

\* an insert was refused for row security while both identities have rows
C3_Witness ==
  /\ result.op = "insert"
  /\ result.error = "rls"
  /\ auth_users = Identities
  /\ db.customers # {}

\* C4. Deleting a customer removes it together with exactly the interactions
\* and reminders whose customer_id is that customer, leaves every other row of
\* every table unchanged, and does so in one step: no state has a child whose
\* customer is absent.
C4_CascadeExact ==
  [][/\ \A c \in db.customers :
          (c.id \notin {x.id : x \in db'.customers}) =>
             /\ db'.customers = db.customers \ {c}
             /\ db'.customer_interactions =
                  {r \in db.customer_interactions : r.customer_id # c.id}
             /\ db'.reminders = {r \in db.reminders : r.customer_id # c.id}
             /\ db'.profiles = db.profiles
             /\ auth_users' = auth_users
     /\ \A r \in db'.customer_interactions \cup db'.reminders :
          \E c \in db'.customers : c.id = r.customer_id]_vars

\* a delete whose cascade removed children while another customer stayed
C4_Witness ==
  /\ result.op = "delete"
  /\ result.cascaded # {}
  /\ db.customers # {}

ProfilesOf(u) == {p \in db.profiles : p.user_id = u}

\* C5. Registering an identity creates, in the same step, exactly one profile
\* row keyed to that identity, with plan 'free'.
C5_RegistrationCreatesProfile ==
  [][\A u \in Identities :
       (u \notin auth_users /\ u \in auth_users') =>
          /\ {p \in db.profiles : p.user_id = u} = {}
          /\ Cardinality({p \in db'.profiles : p.user_id = u}) = 1
          /\ \A p \in db'.profiles : p.user_id = u => p.plan = "free"]_vars

\* an identity registered without a name holds its free profile
C5_Witness ==
  \E u \in auth_users :
    \E p \in ProfilesOf(u) : p.plan = "free" /\ p.full_name = EmptyString

\* C6. In every state each registered identity has exactly one profile row
\* (and an unregistered one has none), whatever profile inserts, updates and
\* deletes callers have issued.
C6_OneProfilePerIdentity ==
  \A u \in Identities :
    Cardinality(ProfilesOf(u)) = IF u \in auth_users THEN 1 ELSE 0

\* a caller's insert of a second profile for itself was refused
C6_Witness ==
  /\ result.op = "insert"
  /\ result.error = "unique"
  /\ auth_users = Identities

\* the customers of owner u in the store
CustomersOf(u) == {c \in db.customers : c.user_id = u}

\* C7. Free-tier pre-check: a valid create submission made while the owner
\* has exactly 20 customers is refused with the limit message and sends no
\* insert; an insert reaching the store while the owner has 19 makes it 20.
C7_LimitPreCheck ==
  [][\A s \in Sessions :
       LET page == customersPage[s]
           owned == Cardinality(CustomersOf(page.user))
       IN  /\ (/\ handleSubmit(s)
               /\ page.editingCustomer.id = NullId
               /\ customerSchema(page.formData).ok
               /\ owned = FreeLimit)
              => /\ customersPage'[s].submitReq.kind = "none"
                 /\ customersPage'[s].toast = "limit"
           /\ (/\ handleSubmitDone(s)
               /\ page.submitReq.kind = "insert"
               /\ owned = FreeLimit - 1)
              => Cardinality({c \in db'.customers : c.user_id = page.user})
                   = FreeLimit]_vars

\* C8. The free tier caps the owner's customers: in every state an owner on
\* the free plan has at most 20 customer rows in the store.
C8_FreeTierCap ==
  \A u \in auth_users :
    (\E p \in ProfilesOf(u) : p.plan = "free")
      => Cardinality(CustomersOf(u)) <= FreeLimit

\* C9. Two toggles of a reminder's completed flag that the store applied
\* leave the stored flag at its original value.
C9_ToggleTwiceRestores ==
  history.applied = 2 => \A r \in db.reminders : r.completed = history.original

\* C10. Every update of a profile, customer or reminder sets updated_at to the
\* time of the update, so that a row's updated_at never decreases from one
\* state to the next.
C10_UpdatedAtNeverDecreases ==
  [][\A t \in {"profiles", "customers", "reminders"} :
       \A r \in db[t] : \A r2 \in db'[t] :
         r2.id = r.id => r2.updated_at >= r.updated_at]_vars

\* C11. Ownership is permanent: no step, whoever takes it and whatever
\* user_id its update supplies, changes the user_id of a row of profiles,
\* customers, customer_interactions or reminders.
C11_OwnershipPermanent ==
  [][\A t \in Tables : \A r \in db[t] : \A r2 \in db'[t] :
       r2.id = r.id => r2.user_id = r.user_id]_vars

\* an update that supplied another identity as user_id was refused
C11_Witness ==
  /\ result.op = "update"
  /\ result.error = "rls"
  /\ auth_users = Identities
  /\ db.customers # {}

\* C12. In every state each interaction and each reminder has the user_id of
\* the customer its customer_id references.
C12_ChildOwnerIsParentOwner ==
  \A t \in ChildTables : \A r \in db[t] : \A c \in db.customers :
    c.id = r.customer_id => c.user_id = r.user_id

\* C13. No orphans: in every state each interaction and each reminder
\* references a customer in the store, and an insert or update of a child
\* whose customer_id matches no customer leaves the store unchanged, the
\* insert with an error.
C13_NoOrphans ==
  /\ \A t \in ChildTables : \A r \in db[t] :
       \E c \in db.customers : c.id = r.customer_id
  /\ \A t \in ChildTables : \A caller \in Callers :
       /\ \A p \in OwnershipInsertPayloads(t) :
            (p.customer_id \notin {c.id : c \in db.customers}) =>
               LET a == DbInsert(t, caller, p)
               IN  a.error # "none" /\ a.db = db
       /\ \A i \in TargetIds(t) :
            LET a == DbUpdate(t, caller, i, [customer_id |-> nextId])
            IN  a.db = db /\ a.count = 0

\* a child row naming a customer that does not exist was refused while
\* children of existing customers are stored
C13_Witness ==
  /\ result.error = "fk"
  /\ db.customer_interactions # {}
  /\ db.reminders # {}

\* C14. An update addressed to a row of another identity is answered as an
\* update addressed to an id that is in no table: same error, same count,
\* same store.
C14_NotYoursAsNotFound ==
  \A t \in Tables : \A caller \in Callers : \A r \in db[t] :
    (r.user_id # caller) =>
       \A p \in OwnershipUpdatePayloads(t) :
         DbUpdate(t, caller, r.id, p) = DbUpdate(t, caller, nextId, p)

\* an update was answered without error while each identity holds a customer
\* the other may address
C14_Witness ==
  /\ result.op = "update"
  /\ result.error = "none"
  /\ \A u \in Identities : \E c \in db.customers : c.user_id = u

\* C15. An update or a delete the Customers screen sends for an id that is no
\* longer in the store ends with the error message, never with the message
\* of success.
C15_StaleIdReported ==
  [][\A s \in Sessions :
       LET page == customersPage[s]
           stored == {c.id : c \in db.customers}
       IN  /\ (/\ page.submitReq.kind = "update"
               /\ page.submitReq.id \notin stored
               /\ handleSubmitDone(s))
              => customersPage'[s].toast = "error"
           /\ (/\ page.deleteReq.kind = "delete"
               /\ page.deleteReq.id \notin stored
               /\ handleDeleteDone(s))
              => customersPage'[s].toast = "error"]_vars

\* C16. Validation precedes mutation: a submission of the customer form with
\* a name shorter than 2 characters after trimming or a malformed email, or
\* of the reminder form with a title shorter than 3 characters after
\* trimming, no customer selected or an empty date, issues no request and
\* leaves the store unchanged.
C16_ValidationPrecedesMutation ==
  [][\A s \in Sessions :
       /\ (/\ customersPage[s].showForm
           /\ LET form == customersPage[s].formData
              IN  \/ Len(Trim(form.name)) < 2
                  \/ form.email # EmptyString /\ ~IsEmail(Trim(form.email))
           /\ handleSubmit(s))
          => /\ customersPage'[s].submitReq = NoRequest
             /\ customersPage'[s].toast = "invalid"
             /\ db' = db
       /\ (/\ remindersPage[s].showForm
           /\ LET form == remindersPage[s].formData
              IN  \/ Len(Trim(form.title)) < 3
                  \/ form.customer_id = NoSelection
                  \/ form.reminder_date = EmptyString
           /\ Reminders_handleSubmit(s))
          => /\ remindersPage'[s].submitReq = NoReminderRequest
             /\ remindersPage'[s].toast = "invalid"
             /\ db' = db
       /\ \A c \in db'.customers \ db.customers : Len(c.name) >= 2
       /\ \A r \in db'.reminders \ db.reminders : Len(r.title) >= 3]_vars

\* the reminder form, complete but for a title of two letters behind a
\* blank, was refused after it had created a reminder
C16_Witness ==
  /\ \E s \in Sessions :
       /\ remindersPage[s].toast = "invalid"
       /\ remindersPage[s].showForm
       /\ remindersPage[s].formData.title = <<" ", "a", "b">>
       /\ remindersPage[s].formData.customer_id # NoSelection
       /\ remindersPage[s].formData.reminder_date # EmptyString
  /\ nextId > 3

\* C17. A caller without identity reads no row and changes nothing: its
\* selects are empty, its inserts are refused and its updates and deletes
\* reach no row, on all four tables.
C17_AnonymousDenied ==
  \A t \in Tables :
    /\ Select(t, NULL) = {}
    /\ \A p \in OwnershipInsertPayloads(t) :
         LET a == DbInsert(t, NULL, p) IN a.error # "none" /\ a.db = db
    /\ \A i \in TargetIds(t) :
         /\ \A p \in OwnershipUpdatePayloads(t) :
              LET a == DbUpdate(t, NULL, i, p) IN a.count = 0 /\ a.db = db
         /\ LET a == DbDelete(t, NULL, i) IN a.count = 0 /\ a.db = db

\* a select without identity was answered empty while every table holds rows
C17_Witness ==
  /\ result.op = "select"
  /\ result.caller = NULL
  /\ result.rows = {}
  /\ \A t \in Tables : db[t] # {}

\* C18. An interaction whose type is outside call, email, meeting, quote,
\* service, other is refused and the store stays as it was; every stored
\* interaction has a type of that list.
C18_InteractionTypeChecked ==
  /\ \A r \in db.customer_interactions : r.type \in InteractionTypes
  /\ \A caller \in Callers :
       \A p \in OwnershipInsertPayloads("customer_interactions") :
         (p.type \notin InteractionTypes) =>
            LET a == DbInsert("customer_interactions", caller, p)
            IN  a.error # "none" /\ a.db = db

\* the owner's insert of an interaction was refused by the CHECK constraint
C18_Witness ==
  /\ result.op = "insert"
  /\ result.error = "check"
  /\ db.customers # {}

\* C19. Once a customer is deleted, listing the interactions and the
\* reminders of any owner returns no row of that customer.
C19_DeletedCustomerLeavesNoListing ==
  [][\A c \in db.customers :
       (c.id \notin {x.id : x \in db'.customers}) =>
          \A u \in auth_users :
            /\ \A r \in Select("customer_interactions", u)' : r.customer_id # c.id
            /\ \A r \in remindersQuery(u)' : r.customer_id # c.id]_vars

\* the delete of a customer took two child rows with it and a listing of the
\* child tables is now empty
C19_Witness ==
  /\ result.op = "delete"
  /\ Cardinality(result.cascaded) >= 2
  /\ \A u \in auth_users :
       Select("customer_interactions", u) = {} /\ remindersQuery(u) = {}

\* C20. No delete request removes a profile row: every profile of a state is
\* a profile of the next.
C20_ProfilesNeverDeleted ==
  [][\A p \in db.profiles : \E q \in db'.profiles : q.id = p.id]_vars

\* a delete was answered while both identities keep their profiles
C20_Witness ==
  /\ result.op = "delete"
  /\ \A u \in Identities : ProfilesOf(u) # {}

\* C21. The profile created at registration carries the full name supplied
\* at signup, and the empty string, never null, when no name was supplied.
C21_ProfileCarriesName ==
  [][\A u \in Identities, n \in SuppliedNames :
       Register(u, n) =>
         \E p \in db'.profiles \ db.profiles :
           /\ p.user_id = u
           /\ p.full_name # NullText
           /\ p.full_name = IF n = NullText THEN EmptyString ELSE n]_vars

\* one identity registered with a name and the other without
C21_Witness ==
  /\ \E p \in db.profiles : p.user_id = "A" /\ p.full_name = Ana
  /\ \E p \in db.profiles : p.user_id = "B" /\ p.full_name = EmptyString

\* C22. A reminder created through the reminder form is pending: the row the
\* insert of the form adds has completed = false, and a pending reminder
\* becomes completed only in the step that applies a toggle of its owner.
C22_NewReminderPending ==
  [][/\ \A r \in db'.reminders :
          (\A old \in db.reminders : old.id # r.id) => r.completed = FALSE
     /\ \A old \in db.reminders, r \in db'.reminders :
          old.id = r.id /\ ~old.completed /\ r.completed =>
            \E s \in Sessions : \E i \in DOMAIN remindersPage[s].toggleReqs :
              /\ handleToggleCompleteDone(s, i)
              /\ remindersPage[s].toggleReqs[i].id = r.id
              /\ remindersPage[s].user = r.user_id]_vars

\* the form has created a reminder, and the owner's toggle has completed it
C22_Witness ==
  /\ remindersPage["s1"].toast = "created"
  /\ \E r \in db.reminders : r.id >= 3 /\ r.title = Bob /\ r.completed

\* C23. Every stored customer has a non-empty name in every reachable state:
\* no insert or update the store accepts leaves a customer whose name is
\* empty or consists of blanks only.
C23_NameNonEmpty ==
  \A c \in db.customers : c.name # NullText /\ Trim(c.name) # EmptyString

\* C24. Create entry points create: a step that opens the customer dialog
\* through "Novo Cliente" or "Adicionar Primeiro Cliente", or the reminder
\* dialog through "Novo Lembrete" or "Criar Primeiro Lembrete", leaves the
\* form open in create mode with an empty draft, so that its submit takes the
\* insert branch, whatever edits, cancels, deletes and reloads came before.
C24_CreateEntryPointsCreate ==
  [][\A s \in Sessions :
       /\ NovoCliente(s) \/ AdicionarPrimeiroCliente(s) =>
            /\ customersPage'[s].showForm
            /\ customersPage'[s].editingCustomer = NoCustomer
            /\ customersPage'[s].formData = EmptyForm
       /\ NovoLembrete(s) \/ CriarPrimeiroLembrete(s) =>
            /\ remindersPage'[s].showForm
            /\ remindersPage'[s].editingReminder = NoReminder
            /\ remindersPage'[s].formData = EmptyReminderForm]_vars

\* C25. Editing a reminder through the form leaves the completed flag of
\* every reminder as it was, and applying a toggle leaves the title,
\* customer_id and owner of every reminder as they were and changes no other
\* reminder than the one toggled.
C25_EditAndToggleFrames ==
  [][\A s \in Sessions :
       /\ Reminders_handleSubmitDone(s)
            /\ remindersPage[s].submitReq.kind = "update" =>
              \A old \in db.reminders : \E r \in db'.reminders :
                r.id = old.id /\ r.completed = old.completed
       /\ \A i \in DOMAIN remindersPage[s].toggleReqs :
            handleToggleCompleteDone(s, i) =>
              \A old \in db.reminders : \E r \in db'.reminders :
                /\ r.id = old.id
                /\ r.title = old.title
                /\ r.customer_id = old.customer_id
                /\ r.user_id = old.user_id
                /\ old.id # remindersPage[s].toggleReqs[i].id => r = old]_vars

\* the reminder has been completed by a toggle and renamed by the form
C25_Witness ==
  /\ remindersPage["s1"].toast = "updated"
  /\ remindersPage["s1"].submitReq.kind = "none"
  /\ \E r \in db.reminders : r.id = 2 /\ r.title = Bob /\ r.completed

\* C26. The displayed list converges to the store: when no request the
\* Customers screen or the Reminders screen started is still in flight (no
\* load, no submit, no delete, no toggle) and no load has failed, the lists
\* in screen state equal the caller's rows in the store, in whatever order
\* the responses of overlapping reloads arrived.
C26_ListConverges ==
  \A s \in Sessions :
    LET c == customersPage[s]
        r == remindersPage[s]
    IN  /\ /\ c.user # NULL
           /\ c.loads = {}
           /\ c.submitReq.kind = "none"
           /\ c.deleteReq.kind = "none"
           => c.customers = loadCustomersQuery(c.user)
        /\ /\ r.user # NULL
           /\ r.loads = {}
           /\ r.submitReq.kind = "none"
           /\ r.deleteReq.kind = "none"
           /\ r.toggleReqs = <<>>
           => /\ r.reminders = remindersQuery(r.user)
              /\ r.customers = customersQuery(r.user)

\* C27. The saving flag is released on every path: a submit of the customer
\* form or of the reminder form that issues no request (validation failure,
\* limit refusal) leaves saving false; the step in which the request settles
\* (success, store error, failed request) sets saving false and issues no
\* request; a request is issued by the user's submit alone, never by a retry;
\* and saving is false again and again, so never true for ever.
C27_SavingReleased ==
  /\ [][\A s \in Sessions :
          LET c == customersPage[s]
              c2 == customersPage'[s]
              r == remindersPage[s]
              r2 == remindersPage'[s]
          IN  /\ handleSubmit(s) /\ c2.submitReq.kind = "none" => ~c2.saving
              /\ handleSubmitDone(s) \/ handleSubmitFailed(s) =>
                   ~c2.saving /\ c2.submitReq.kind = "none"
              /\ c2.submitReq # c.submitReq /\ c2.submitReq.kind # "none" =>
                   handleSubmit(s) /\ c.submitReq.kind = "none"
              /\ Reminders_handleSubmit(s) /\ r2.submitReq.kind = "none" => ~r2.saving
              /\ Reminders_handleSubmitDone(s) \/ Reminders_handleSubmitFailed(s) =>
                   ~r2.saving /\ r2.submitReq.kind = "none"
              /\ r2.submitReq # r.submitReq /\ r2.submitReq.kind # "none" =>
                   Reminders_handleSubmit(s) /\ r.submitReq.kind = "none"]_vars
  /\ \A s \in Sessions :
       /\ []<>(~customersPage[s].saving)
       /\ []<>(~remindersPage[s].saving)

\* the limit check has refused a create and the submit button is enabled
C27_Witness ==
  /\ customersPage["s1"].toast = "limit"
  /\ ~customersPage["s1"].saving
  /\ customersPage["s1"].submitReq.kind = "none"
  /\ Cardinality(customersPage["s1"].customers) >= FreeLimit

\* C28. The dialog follows the outcome of the save. The step that reports a
\* successful insert or update closes the dialog, clears the editing target,
\* resets the draft and starts a reload. A submit refused by the validation
\* or by the limit check leaves the dialog open, and it and the step that
\* reports a failed request leave the dialog, the draft and the editing
\* target as they were and start no reload.
C28_DialogTracksOutcome ==
  [][\A s \in Sessions :
       LET c == customersPage[s]
           c2 == customersPage'[s]
           r == remindersPage[s]
           r2 == remindersPage'[s]
       IN  /\ handleSubmitDone(s) /\ c2.toast \in {"added", "updated"} =>
                /\ ~c2.showForm
                /\ c2.editingCustomer = NoCustomer
                /\ c2.formData = EmptyForm
                /\ \E l \in c2.loads : l.state = "sent"
           /\ \/ handleSubmit(s) /\ c2.submitReq.kind = "none"
              \/ handleSubmitFailed(s)
              \/ handleSubmitDone(s) /\ c2.toast = "error"
              => /\ c2.showForm = c.showForm
                 /\ handleSubmit(s) => c2.showForm
                 /\ c2.formData = c.formData
                 /\ c2.editingCustomer = c.editingCustomer
                 /\ c2.loads = c.loads
           /\ Reminders_handleSubmitDone(s) /\ r2.toast \in {"created", "updated"} =>
                /\ ~r2.showForm
                /\ r2.editingReminder = NoReminder
                /\ r2.formData = EmptyReminderForm
                /\ \E l \in r2.loads : l.state = "sent"
           /\ \/ Reminders_handleSubmit(s) /\ r2.submitReq.kind = "none"
              \/ Reminders_handleSubmitFailed(s)
              \/ Reminders_handleSubmitDone(s) /\ r2.toast = "error"
              => /\ r2.showForm = r.showForm
                 /\ Reminders_handleSubmit(s) => r2.showForm
                 /\ r2.formData = r.formData
                 /\ r2.editingReminder = r.editingReminder
                 /\ r2.loads = r.loads]_vars

\* the save of an edited reminder has failed: the dialog is open on its draft
C28_Witness ==
  /\ remindersPage["s1"].toast = "error"
  /\ remindersPage["s1"].showForm
  /\ remindersPage["s1"].submitReq.kind = "none"
  /\ remindersPage["s1"].editingReminder.id = 2
  /\ remindersPage["s1"].formData.title = Ana

C30_DeleteOnlyConfirmed ==
  [][\A s \in Sessions :
       LET c == customersPage[s]
           c2 == customersPage'[s]
           r == remindersPage[s]
           r2 == remindersPage'[s]
       IN  /\ \A x \in Pickable(c) : handleDelete(s, x, FALSE) => UNCHANGED vars
           /\ \A x \in r.reminders :
                Reminders_handleDelete(s, x, FALSE) => UNCHANGED vars
           /\ c2.deleteReq # c.deleteReq /\ c2.deleteReq.kind = "delete" =>
                \E x \in Pickable(c) :
                  handleDelete(s, x, TRUE) /\ c2.deleteReq.id = x.id
           /\ r2.deleteReq # r.deleteReq /\ r2.deleteReq.kind = "delete" =>
                \E x \in r.reminders :
                  Reminders_handleDelete(s, x, TRUE) /\ r2.deleteReq.id = x.id
           /\ c.user # NULL /\ {x.id : x \in db'.customers} # {x.id : x \in db.customers} =>
                handleDeleteDone(s) /\ c.deleteReq.kind = "delete"
           /\ r.user # NULL /\ {x.id : x \in db'.reminders} # {x.id : x \in db.reminders} =>
                Reminders_handleDeleteDone(s) /\ r.deleteReq.kind = "delete"]_vars

\* a confirmed delete of the reminder has failed; the reminder is listed and
\* stored, and its delete button asks for confirmation again
C30_Witness ==
  /\ RemindersShown(remindersPage["s1"])
  /\ remindersPage["s1"].toast = "error"
  /\ remindersPage["s1"].deleteReq.kind = "none"
  /\ \E x \in remindersPage["s1"].reminders : \E y \in db.reminders : y.id = x.id

====
